---- MODULE Spec2Model ----
(***************************************************************************)
(* Chunked upload engine of django-elliptics.                              *)
(*                                                                         *)
(*   storage/simple.py    EllipticsStorage: _timeout_request, _save,       *)
(*                        _save_with_append, _save_file, _create_chunk     *)
(*   storage/threaded.py  ThreadedEllipticsStorage: the worker threads,    *)
(*                        the slot map __active_threads, reap and drain    *)
(*   storage/base.py      EllipticsFile; delete and exists                 *)
(*   storage.py           the older generation of _save and _save_file     *)
(*                                                                         *)
(* One behaviour is one call of _save(name, content, append) on a freshly  *)
(* constructed storage object.  The content is the byte string             *)
(* <<1, 2, ..., L>>: every byte is named by its position, so a chunk is    *)
(* known by the range of positions it holds.                               *)
(***************************************************************************)
EXTENDS Integers, Sequences, FiniteSets, TLC

\* Bounds of the model.
MaxLen == 9                 \* longest byte string
MaxStreamLen == 5           \* longest stream-like content, and its declared size
MAX_CHUNK_SIZE == 2         \* ELLIPTICS_UPLOAD_CHUNK_SIZE, scaled down
MAX_HTTP_SESSIONS == 2      \* ELLIPTICS_MAX_SESSIONS, scaled down
RETRIES_POST == 2           \* ELLIPTICS_POST_CONNECTION_RETRIES, scaled down
MaxRetries == 3             \* largest retry budget given to _timeout_request alone
MaxBuffer == 3              \* most bytes written through one file handle
MaxObject == 6              \* longest object the store is made to hold
MaxAverage == 1             \* largest ELLIPTICS_AVERAGE_FILE_SIZE configured
max_sessions == 2           \* Pool(max_sessions), scaled down
PoolThreads == 3            \* threads that use one Pool

\* An absent number: a request parameter that is not set, a length of None.
NONE == 0 - 1

VARIABLES
    threaded,           \* the storage is a ThreadedEllipticsStorage
    append,             \* _save(..., append)
    stream,             \* the content has a read() method
    L,                  \* number of bytes the content really holds
    size,               \* what __guess_content_size finds: a number or NONE
    cursor,             \* read position of a stream-like content
    pc,                 \* where the calling thread is
    length,             \* _save_file: length
    uploaded,           \* _save_file / _save: uploaded
    chunk,              \* _save_file: chunk, as [from, len]
    next_chunk,         \* _save_file: next_chunk, as [from, len]
    request_args,       \* _save_file: request_args of the current iteration
    synchronous,        \* _upload_a_chunk: synchronous
    requests,           \* log of the upload requests issued, in issue order
    threads,            \* the worker threads started, in start order
    active,             \* __active_threads: thread -> result
    workers,            \* snapshot tuple(keys()) the running loop still visits
    thread,             \* __collect_thread_status_and_kill: thread
    result,             \* __collect_thread_status_and_kill: result
    caller,             \* who called __collect_thread_status_and_kill
    drainCaller,        \* who called __wait_till_all_threads_finish
    exception,          \* __wait_till_all_threads_finish: exception
    pending,            \* the exception that is propagating, or raised by _save
    drainFails,         \* failures the running drain met, in order (history)
    expired,            \* threads whose join wait expired (history)
    AVERAGE_FILE_SIZE,  \* storage.py: self.AVERAGE_FILE_SIZE, from the settings
    \* one call of _timeout_request, taken alone
    method,             \* _timeout_request: method
    retries_post,       \* self.retries_post
    retries_get,        \* self.retries_get
    retries,            \* _timeout_request: retries
    timeout,            \* _timeout_request: timeout
    retry_count,        \* _timeout_request: retry_count, NONE while unbound
    attempts,           \* what each self._request of the call did (history)
    response,           \* what the call returned or raised
    xpc,                \* where the call is
    operation,          \* the operation of the storage that is running
    session,            \* the calls made on self.session (history)
    opresult,           \* what the operation returned or raised
    \* one key of the store and one EllipticsFile on it
    remote,             \* the store: the object under the key
    _mode,              \* EllipticsFile._mode, "none" while there is no handle
    _stream,            \* EllipticsFile._stream
    op,                 \* the operation performed last
    sent,               \* the HTTP requests that operation issued
    fresult,            \* what it returned or raised
    saved,              \* content of the last save that returned (history)
    appended,           \* what 'a' handles sent since that save (history)
    \* one session_pool.Pool and the threads that use it
    free_sessions_counter,  \* Pool.__free_sessions_counter: permits left
    lock,               \* Pool.lock: the thread that holds it, 0 for none
    pool,               \* Pool.__pool: the sessions in the set
    where,              \* where each thread is
    held                \* the session each thread holds, 0 for none

saveVars == <<threaded, append, stream, L, size, cursor, pc, length, uploaded,
          chunk, next_chunk, request_args, synchronous, requests, threads,
          active, workers, thread, result, caller, drainCaller, exception,
          pending, drainFails, expired, AVERAGE_FILE_SIZE>>

execVars == <<method, retries_post, retries_get, retries, timeout,
              retry_count, attempts, response, xpc, operation, session,
              opresult>>

fileVars == <<remote, _mode, _stream, op, sent, fresult, saved, appended>>

sessionVars == <<free_sessions_counter, lock, pool, where, held>>

vars == <<saveVars, execVars, fileVars, sessionVars>>

\* what no step of a save changes: its inputs, and the other components
inputVars == <<threaded, append, stream, L, size, AVERAGE_FILE_SIZE,
               execVars, fileVars, sessionVars>>
loopVars == <<length, uploaded, chunk, next_chunk, request_args, synchronous>>
poolVars == <<threads, active, workers, thread, result, caller, drainCaller,
              exception, drainFails, expired>>

----------------------------------------------------------------------------
\* Exceptions (storage/errors.py).  src is the worker thread whose slot held
\* the failure, 0 for a request of the calling thread.

NoExc == [type |-> "None", msg |-> "", src |-> 0]
Exc(type, msg, src) == [type |-> type, msg |-> msg, src |-> src]

\* class hierarchy: SaveError(HTTPError(BaseError)), TimeoutError(ReadError,
\* SaveError); anything else is not a BaseError.
IsBaseError(type) == type \in {"BaseError", "SaveError", "ReadError", "TimeoutError"}
IsSaveError(type) == type \in {"SaveError", "TimeoutError"}

----------------------------------------------------------------------------
\* _timeout_request.  The transport is an input: what each attempt does.

Attempt == {"timeout", "gaierror", "error", "200", "500"}
Behaviour == [1..RETRIES_POST -> Attempt]

RECURSIVE TimeoutRequestFrom(_, _, _)
TimeoutRequestFrom(beh, count, budget) ==
    IF count >= budget
    THEN "TimeoutError"                           \* for ... else: raise TimeoutError
    ELSE LET a == beh[count + 1] IN
         CASE a = "gaierror" -> "BaseError"       \* except socket.gaierror
           [] a = "timeout"  -> TimeoutRequestFrom(beh, count + 1, budget)
           [] a = "error"    -> "Error"           \* any other exception: not caught
           [] OTHER          -> a                 \* a response: break

\* With no attempt at all the for-else branch reads retry_count, which was
\* never bound.
_timeout_request(beh, budget) ==
    IF budget = 0 THEN "Error" ELSE TimeoutRequestFrom(beh, 0, budget)

\* RaisedBy without the status check of the response.
RaisedBy_NoStatusCheck(outcome) ==
    CASE outcome \in {"200", "500"} -> NoExc
      [] outcome = "TimeoutError" -> Exc("TimeoutError", "retries", 0)
      [] outcome = "BaseError" -> Exc("BaseError", "incorrect request", 0)
      [] OTHER -> Exc("Error", "transport", 0)

\* What a synchronous request makes its caller raise (NoExc: nothing):
\* "if response.status_code != 200: raise SaveError(response)".
RaisedBy(outcome) ==
    CASE outcome = "200" -> NoExc
      [] outcome = "500" -> Exc("SaveError", "status", 0)
      [] outcome = "TimeoutError" -> Exc("TimeoutError", "retries", 0)
      [] outcome = "BaseError" -> Exc("BaseError", "incorrect request", 0)
      [] OTHER -> Exc("Error", "transport", 0)

----------------------------------------------------------------------------
\* Chunks.

Min(a, b) == IF a < b THEN a ELSE b

NoChunk == [from |-> 0, len |-> 0]

\* _create_chunk: content.read(chunk_length) for a stream (from the cursor,
\* whatever from_byte is), content[from_byte:from_byte + chunk_length] else.
_create_chunk(from_byte, chunk_length) ==
    IF stream
    THEN [from |-> cursor, len |-> Min(chunk_length, L - cursor)]
    ELSE [from |-> Min(from_byte, L),
          len |-> Min(from_byte + chunk_length, L) - Min(from_byte, L)]

\* CursorAfter for a stream that does not move its position.
CursorAfter_NoAdvance(c) == cursor

\* the read cursor after _create_chunk returned c
CursorAfter(c) == IF stream THEN cursor + c.len ELSE cursor

\* AppendBody cut at the chunk size.
AppendBody_FirstChunk == _create_chunk(0, MAX_CHUNK_SIZE)

\* _save(append=True): "self._save_with_append(name, content, **args)" hands
\* the content itself to the request, which sends all of it (a stream from
\* its position to its end).
AppendBody == [from |-> cursor, len |-> L - cursor]

NoArgs == [offset |-> NONE, size |-> NONE, prepare |-> NONE, commit |-> NONE,
           ioflags |-> NONE]

\* One entry of the request log.
Request(args, c, sync, t, status) ==
    [args |-> args, from |-> c.from, len |-> c.len, sync |-> sync,
     thread |-> t, status |-> status]

\* RequestArgs with "commit = uploaded", the chunk being sent left out.
RequestArgs_CommitUploaded(up, chunk_length, next_chunk_length, len) ==
    LET only == (up = 0 /\ next_chunk_length = 0)
        first == (up = 0 /\ next_chunk_length > 0)
        last == (up > 0 /\ next_chunk_length = 0)
    IN  [offset  |-> IF ~only THEN up ELSE NONE,
         size    |-> IF ~only THEN chunk_length ELSE NONE,
         prepare |-> IF first /\ len # NONE /\ chunk_length < len
                     THEN len ELSE NONE,
         commit  |-> IF last THEN up ELSE NONE,
         ioflags |-> NONE]

\* The request parameters _save_file gives the chunk at offset up (of length
\* chunk_length, followed by a chunk of length next_chunk_length).
RequestArgs(up, chunk_length, next_chunk_length, len) ==
    LET only == (up = 0 /\ next_chunk_length = 0)
        first == (up = 0 /\ next_chunk_length > 0)
        last == (up > 0 /\ next_chunk_length = 0)
    IN  [offset  |-> IF ~only THEN up ELSE NONE,
         size    |-> IF ~only THEN chunk_length ELSE NONE,
         \* "chunk_length < length"; a length of None compares below any number
         prepare |-> IF first /\ len # NONE /\ chunk_length < len
                     THEN len ELSE NONE,
         commit  |-> IF last THEN up + chunk_length ELSE NONE,
         ioflags |-> NONE]

\* IsSynchronous with the first request left to the workers.
IsSynchronous_LastOnly(up, next_chunk_length) == next_chunk_length = 0

\* "synchronous=uploaded == 0 or next_chunk_length == 0"
IsSynchronous(up, next_chunk_length) == up = 0 \/ next_chunk_length = 0

----------------------------------------------------------------------------
InitSave ==
    /\ threaded \in BOOLEAN
    /\ append \in BOOLEAN
    /\ stream \in BOOLEAN
    /\ L \in 0..MaxLen
    /\ size \in (0..MaxLen) \cup {NONE}
    /\ ~stream => size = L            \* a string: len(content)
    /\ stream => L <= MaxStreamLen /\ size <= MaxStreamLen
    /\ cursor = 0
    /\ pc = "save"
    /\ length = NONE
    /\ uploaded = 0
    /\ chunk = NoChunk
    /\ next_chunk = NoChunk
    /\ request_args = NoArgs
    /\ synchronous = FALSE
    /\ requests = <<>>
    /\ threads = <<>>
    /\ active = <<>>                  \* __init__: self.__active_threads = {}
    /\ workers = {}
    /\ thread = 0
    /\ result = "None"
    /\ caller = ""
    /\ drainCaller = ""
    /\ exception = NoExc
    /\ pending = NoExc
    /\ drainFails = <<>>
    /\ expired = {}

\* no save is running
SaveIdle ==
    /\ threaded = FALSE /\ append = FALSE /\ stream = FALSE
    /\ L = 0 /\ size = 0 /\ cursor = 0
    /\ pc = "idle"
    /\ length = NONE /\ uploaded = 0
    /\ chunk = NoChunk /\ next_chunk = NoChunk
    /\ request_args = NoArgs /\ synchronous = FALSE
    /\ requests = <<>> /\ threads = <<>> /\ active = <<>>
    /\ workers = {} /\ thread = 0 /\ result = "None"
    /\ caller = "" /\ drainCaller = ""
    /\ exception = NoExc /\ pending = NoExc
    /\ drainFails = <<>> /\ expired = {}
    /\ AVERAGE_FILE_SIZE = MaxAverage

\* no call of _timeout_request is followed step by step
ExecIdle ==
    /\ method = "POST"
    /\ retries_post = RETRIES_POST /\ retries_get = RETRIES_POST
    /\ retries = NONE /\ timeout = NONE /\ retry_count = NONE
    /\ attempts = <<>> /\ response = "None" /\ xpc = "idle"
    /\ operation = "none" /\ session = <<>> /\ opresult = "None"

\* the store with no object under the key, and with the object data
Absent == [exists |-> FALSE, data |-> <<>>, staged |-> <<>>]
Object(data) == [exists |-> TRUE, data |-> data, staged |-> <<>>]

\* "self._stream = None", and a StringIO holding data, positioned at pos
NoStream == [set |-> FALSE, data |-> <<>>, pos |-> 0]
StringIO(data, pos) == [set |-> TRUE, data |-> data, pos |-> pos]

\* what an operation gave: a value returned, or the exception raised
Returned(data) == [status |-> "200", content |-> data]
Gave(what) == [status |-> what, content |-> <<>>]

NoData == [known |-> FALSE, data |-> <<>>]
Data(x) == [known |-> TRUE, data |-> x]

\* no file handle is in use
FileIdle ==
    /\ remote = Absent
    /\ _mode = "none" /\ _stream = NoStream
    /\ op = "idle" /\ sent = <<>> /\ fresult = Gave("None")
    /\ saved = NoData /\ appended = <<>>

\* storage/simple.py does not read AVERAGE_FILE_SIZE
\* no Pool is in use
SessionsIdle ==
    /\ free_sessions_counter = 0 /\ lock = 0 /\ pool = {}
    /\ where = <<>> /\ held = <<>>

Init ==
    /\ InitSave /\ AVERAGE_FILE_SIZE = MaxAverage
    /\ ExecIdle /\ FileIdle /\ SessionsIdle

----------------------------------------------------------------------------
\* The calling thread: _save, _save_with_append, _save_file.

\* LeaveSaveFile without the finally clause of the threaded storage.
LeaveSaveFile_NoFinally(exc) ==
    /\ pc' = (IF exc = NoExc THEN "returned" ELSE "raised")
    /\ pending' = exc
    /\ UNCHANGED drainCaller

\* _save_file ends (exc is the exception that leaves it, NoExc for "return
\* name"): the synchronous storage lets it out of _save; the threaded one
\* runs "finally: self.__wait_till_all_threads_finish()" first.
LeaveSaveFile(exc) ==
    IF threaded
    THEN pc' = "drain" /\ drainCaller' = "finally" /\ pending' = exc
    ELSE pc' = (IF exc = NoExc THEN "returned" ELSE "raised")
         /\ pending' = exc /\ UNCHANGED drainCaller

\* _save(append=True): _save_with_append(name, content), one request that
\* carries the whole content.
SaveAppend ==
    /\ pc = "save" /\ append
    /\ \E beh \in Behaviour :
         LET outcome == _timeout_request(beh, RETRIES_POST)
             c == AppendBody
         IN  /\ requests' = Append(requests,
                   Request([NoArgs EXCEPT !.ioflags = 2], c, TRUE, 0, outcome))
             /\ cursor' = CursorAfter(c)
             /\ pending' = RaisedBy(outcome)
             /\ pc' = IF outcome = "200" THEN "returned" ELSE "raised"
    /\ UNCHANGED <<inputVars, loopVars, poolVars>>

\* _save(append=False): __guess_content_size, then either _save_file or the
\* append loop for a content of unknown length.
SaveGuess ==
    /\ pc = "save" /\ ~append
    /\ IF size # NONE
       THEN LET c == _create_chunk(0, MAX_CHUNK_SIZE) IN
            /\ length' = size
            /\ next_chunk' = c
            /\ cursor' = CursorAfter(c)
            /\ pc' = "loop"
       ELSE /\ pc' = "append_loop"
            /\ UNCHANGED <<length, next_chunk, cursor>>
    /\ uploaded' = 0
    /\ UNCHANGED <<inputVars, chunk, request_args, synchronous, requests,
                   poolVars, pending>>

\* _save, length unknown: one iteration of "while True".
SaveAppendLoop ==
    /\ pc = "append_loop"
    /\ LET c == _create_chunk(uploaded, MAX_CHUNK_SIZE) IN
       /\ cursor' = CursorAfter(c)
       /\ chunk' = c
       /\ IF c.len = 0
          THEN /\ pc' = "returned"
               /\ UNCHANGED <<requests, uploaded, pending>>
          ELSE \E beh \in Behaviour :
                 LET outcome == _timeout_request(beh, RETRIES_POST) IN
                 /\ requests' = Append(requests,
                       Request([NoArgs EXCEPT !.ioflags = 2], c, TRUE, 0, outcome))
                 /\ pending' = RaisedBy(outcome)
                 /\ IF outcome = "200"
                    THEN pc' = "append_loop" /\ uploaded' = uploaded + c.len
                    ELSE pc' = "raised" /\ UNCHANGED uploaded
    /\ UNCHANGED <<inputVars, length, next_chunk, request_args, synchronous,
                   poolVars>>

\* _save_file: the loop test and, when it passes, the head of an iteration up
\* to the call of _upload_a_chunk.
SaveFileLoop ==
    /\ pc = "loop"
    /\ IF next_chunk.len > 0
       THEN LET c == _create_chunk(uploaded + next_chunk.len, MAX_CHUNK_SIZE) IN
            /\ chunk' = next_chunk
            /\ next_chunk' = c
            /\ cursor' = CursorAfter(c)
            /\ request_args' = RequestArgs(uploaded, next_chunk.len, c.len, length)
            /\ synchronous' = IsSynchronous(uploaded, c.len)
            /\ pc' = "upload"
            /\ UNCHANGED <<pending, drainCaller>>
       ELSE /\ LeaveSaveFile(NoExc)          \* return name
            /\ UNCHANGED <<chunk, next_chunk, cursor, request_args, synchronous>>
    /\ UNCHANGED <<inputVars, length, uploaded, requests, threads, active,
                   workers, thread, result, caller, exception, drainFails,
                   expired>>

\* "response = self._timeout_request('POST', url, data=chunk)
\*  if response.status_code != 200: raise SaveError(response)", and on
\* success the rest of the iteration: uploaded += chunk_length.
SendChunk ==
    \E beh \in Behaviour :
      LET outcome == _timeout_request(beh, RETRIES_POST) IN
      /\ requests' = Append(requests,
            Request(request_args, chunk, TRUE, 0, outcome))
      /\ IF outcome = "200"
         THEN /\ uploaded' = uploaded + chunk.len
              /\ pc' = "loop"
              /\ UNCHANGED <<pending, drainCaller>>
         ELSE /\ LeaveSaveFile(RaisedBy(outcome))
              /\ UNCHANGED uploaded

\* EllipticsStorage._upload_a_chunk
UploadAChunk ==
    /\ pc = "upload" /\ ~threaded
    /\ SendChunk
    /\ UNCHANGED <<inputVars, cursor, length, chunk, next_chunk, request_args,
                   synchronous, threads, active, workers, thread, result,
                   caller, exception, drainFails, expired>>

----------------------------------------------------------------------------
\* ThreadedEllipticsStorage: the slot map.

Slots == DOMAIN active

\* self.__active_threads[t] = r
SetSlot(t, r) == [x \in Slots \cup {t} |-> IF x = t THEN r ELSE active[x]]

\* del self.__active_threads[t]
DelSlot(t) == [x \in Slots \ {t} |-> active[x]]

\* thread.is_alive()
IsAlive(t) == threads[t].state # "dead"

\* worker threads whose HTTP request is in flight
InFlight == {t \in 1..Len(threads) : threads[t].state = "running"}

\* ThreadedEllipticsStorage._upload_a_chunk
UploadAChunkThreaded ==
    /\ pc = "upload" /\ threaded
    /\ IF synchronous
       THEN pc' = "drain" /\ drainCaller' = "sync"
       ELSE pc' = "reap" /\ UNCHANGED drainCaller
    /\ UNCHANGED <<inputVars, cursor, loopVars, requests, threads, active,
                   workers, thread, result, caller, exception, pending,
                   drainFails, expired>>

\* _upload_a_chunk, synchronous, after the drain returned
SendSynchronous ==
    /\ pc = "send"
    /\ SendChunk
    /\ UNCHANGED <<inputVars, cursor, length, chunk, next_chunk, request_args,
                   synchronous, threads, active, workers, thread, result,
                   caller, exception, drainFails, expired>>

\* __wait_till_all_threads_finish: "exception = None" and the snapshot
\* tuple(self.__active_threads.keys())
DrainBegin ==
    /\ pc = "drain"
    /\ exception' = NoExc
    /\ drainFails' = <<>>
    /\ workers' = Slots
    /\ pc' = "drain_loop"
    /\ UNCHANGED <<inputVars, cursor, loopVars, requests, threads, active,
                   thread, result, caller, drainCaller, pending, expired>>

\* DrainEnd that waits once more instead of returning to the synchronous
\* request.
DrainEnd_WaitAgain(exc, from, prop) ==
    IF exc # NoExc
    THEN IF from = "sync"
         THEN [pc |-> "drain", drainCaller |-> "finally", pending |-> exc]
         ELSE [pc |-> "raised", drainCaller |-> from, pending |-> exc]
    ELSE IF from = "sync"
         THEN [pc |-> "drain", drainCaller |-> from, pending |-> prop]
         ELSE [pc |-> IF prop = NoExc THEN "returned" ELSE "raised",
               drainCaller |-> from, pending |-> prop]

\* What the end of the drain loop does, given the drain's exception exc, the
\* place wait was called from and the exception already propagating:
\* the next position of the calling thread and the exception that propagates.
DrainEnd(exc, from, prop) ==
    IF exc # NoExc
    THEN \* "raise exception": out of _upload_a_chunk into the finally clause,
         \* or out of the finally clause, replacing what was propagating
         IF from = "sync"
         THEN [pc |-> "drain", drainCaller |-> "finally", pending |-> exc]
         ELSE [pc |-> "raised", drainCaller |-> from, pending |-> exc]
    ELSE IF from = "sync"
         THEN [pc |-> "send", drainCaller |-> from, pending |-> prop]
         ELSE [pc |-> IF prop = NoExc THEN "returned" ELSE "raised",
               drainCaller |-> from, pending |-> prop]

\* the drain visits the snapshot in the order the dict gives its keys
DrainLoop ==
    /\ pc = "drain_loop"
    /\ IF workers = {}
       THEN LET e == DrainEnd(exception, drainCaller, pending) IN
            /\ pc' = e.pc
            /\ drainCaller' = e.drainCaller
            /\ pending' = e.pending
            /\ UNCHANGED <<workers, thread, caller>>
       ELSE \E t \in workers :
            /\ workers' = workers \ {t}
            /\ thread' = t
            /\ caller' = "drain"
            /\ pc' = "join"
            /\ UNCHANGED <<drainCaller, pending>>
    /\ UNCHANGED <<inputVars, cursor, loopVars, requests, threads, active,
                   result, exception, drainFails, expired>>

\* __collect_thread_status_and_kill: thread.join(timeout) returns when the
\* thread has ended or when the wait expires.
CollectJoin ==
    /\ pc = "join"
    /\ expired' = IF IsAlive(thread) THEN expired \cup {thread} ELSE expired
    /\ pc' = "read"
    /\ UNCHANGED <<inputVars, cursor, loopVars, requests, threads, active,
                   workers, thread, result, caller, drainCaller, exception,
                   pending, drainFails>>

\* "result = self.__active_threads[thread]"
CollectRead ==
    /\ pc = "read"
    /\ thread \in Slots
    /\ result' = active[thread]
    /\ pc' = "del"
    /\ UNCHANGED <<inputVars, cursor, loopVars, requests, threads, active,
                   workers, thread, caller, drainCaller, exception, pending,
                   drainFails, expired>>

\* CollectStatus without the status check of the response.
CollectStatus_NoStatusCheck(r, t) ==
    CASE r = "None" -> Exc("BaseError", "One of requests timed out", t)
      [] r = "TimeoutError" -> Exc("TimeoutError", "retries", t)
      [] r = "BaseError" -> Exc("BaseError", "incorrect request", t)
      [] OTHER -> NoExc

\* CollectStatus that lets a slot without a result pass.
CollectStatus_IgnoreNone(r, t) ==
    CASE r = "None" -> NoExc
      [] r = "TimeoutError" -> Exc("TimeoutError", "retries", t)
      [] r = "BaseError" -> Exc("BaseError", "incorrect request", t)
      [] r = "200" -> NoExc
      [] OTHER -> Exc("SaveError", "status", t)

\* What __collect_thread_status_and_kill raises for the result it read from
\* the slot of thread t (NoExc: it returns).
CollectStatus(r, t) ==
    CASE r = "None" -> Exc("BaseError", "One of requests timed out", t)
      [] r = "TimeoutError" -> Exc("TimeoutError", "retries", t)
      [] r = "BaseError" -> Exc("BaseError", "incorrect request", t)
      [] r = "200" -> NoExc
      [] OTHER -> Exc("SaveError", "status", t)

\* CaughtByDrain that keeps the first failure.
CaughtByDrain_KeepFirst(old, exc) == IF old # NoExc THEN old ELSE exc

\* __wait_till_all_threads_finish, "except BaseError as exc: exception = exc":
\* the exception the drain holds after a collect that raised exc
CaughtByDrain(old, exc) == IF exc # NoExc THEN exc ELSE old

\* "del self.__active_threads[thread]" and the rest of the function; then the
\* caller: the drain keeps a BaseError and goes on, _upload_chunk_in_thread
\* lets it out.
CollectDel ==
    /\ pc = "del"
    /\ thread \in Slots
    /\ active' = DelSlot(thread)
    /\ LET exc == CollectStatus(result, thread) IN
       CASE caller = "drain" ->
              /\ exception' = CaughtByDrain(exception, exc)
              /\ drainFails' = IF exc # NoExc THEN Append(drainFails, exc)
                               ELSE drainFails
              /\ pc' = "drain_loop"
              /\ UNCHANGED <<drainCaller, pending>>
         [] exc # NoExc ->
              /\ LeaveSaveFile(exc)
              /\ UNCHANGED <<exception, drainFails>>
         [] OTHER ->
              /\ pc' = IF caller = "reap" THEN "reap_loop" ELSE "start"
              /\ UNCHANGED <<exception, drainFails, drainCaller, pending>>
    /\ UNCHANGED <<inputVars, cursor, loopVars, requests, threads, workers,
                   thread, result, caller, expired>>

\* PoolFull one slot late.
PoolFull_OffByOne == Cardinality(Slots) = MAX_HTTP_SESSIONS + 1

\* _upload_chunk_in_thread: "len(self.__active_threads) == self.MAX_HTTP_SESSIONS"
PoolFull == Cardinality(Slots) = MAX_HTTP_SESSIONS

\* the first test of the pool size, and the snapshot of the reap loop
ReapBegin ==
    /\ pc = "reap"
    /\ IF PoolFull
       THEN workers' = Slots /\ pc' = "reap_loop"
       ELSE pc' = "force" /\ UNCHANGED workers
    /\ UNCHANGED <<inputVars, cursor, loopVars, requests, threads, active,
                   thread, result, caller, drainCaller, exception, pending,
                   drainFails, expired>>

\* "for worker in tuple(...): if not worker.is_alive(): collect(worker)"
ReapLoop ==
    /\ pc = "reap_loop"
    /\ IF workers = {}
       THEN pc' = "force" /\ UNCHANGED <<workers, thread, caller>>
       ELSE \E t \in workers :
            /\ workers' = workers \ {t}
            /\ IF IsAlive(t)
               THEN pc' = "reap_loop" /\ UNCHANGED <<thread, caller>>
               ELSE pc' = "join" /\ thread' = t /\ caller' = "reap"
    /\ UNCHANGED <<inputVars, cursor, loopVars, requests, threads, active,
                   result, drainCaller, exception, pending, drainFails,
                   expired>>

\* the second "len(...) == MAX_HTTP_SESSIONS": "force anyone to quit",
\* worker = list(self.__active_threads.keys())[0], whichever key comes first
ForceOne ==
    /\ pc = "force"
    /\ IF PoolFull
       THEN \E t \in Slots :
            /\ thread' = t /\ caller' = "force" /\ pc' = "join"
       ELSE pc' = "start" /\ UNCHANGED <<thread, caller>>
    /\ UNCHANGED <<inputVars, cursor, loopVars, requests, threads, active,
                   workers, result, drainCaller, exception, pending,
                   drainFails, expired>>

\* "self.__active_threads[thread] = None; thread.start()", the return to
\* _save_file and the rest of its iteration
StartThread ==
    /\ pc = "start"
    /\ LET t == Len(threads) + 1 IN
       /\ threads' = Append(threads, [state |-> "running", outcome |-> "None"])
       /\ active' = SetSlot(t, "None")
       /\ requests' = Append(requests,
             Request(request_args, chunk, FALSE, t, "None"))
    /\ uploaded' = uploaded + chunk.len
    /\ pc' = "loop"
    /\ UNCHANGED <<inputVars, cursor, length, chunk, next_chunk, request_args,
                   synchronous, workers, thread, result, caller, drainCaller,
                   exception, pending, drainFails, expired>>

----------------------------------------------------------------------------
\* The worker threads: _timeout_request_with_result.

\* The request of worker t ends.  A BaseError or a response is stored in the
\* slot (created again when the slot is gone); any other exception ends the
\* thread with nothing stored.
WorkerRequest(t) ==
    /\ threads[t].state = "running"
    /\ \E beh \in Behaviour :
         LET outcome == _timeout_request(beh, RETRIES_POST) IN
         IF outcome = "Error"
         THEN /\ threads' = [threads EXCEPT ![t] =
                               [state |-> "dead", outcome |-> outcome]]
              /\ UNCHANGED active
         ELSE /\ threads' = [threads EXCEPT ![t] =
                               [state |-> "stored", outcome |-> outcome]]
              /\ active' = SetSlot(t, outcome)
    /\ UNCHANGED <<inputVars, cursor, pc, loopVars, requests, workers, thread,
                   result, caller, drainCaller, exception, pending,
                   drainFails, expired>>

\* the thread function returns
WorkerExit(t) ==
    /\ threads[t].state = "stored"
    /\ threads' = [threads EXCEPT ![t].state = "dead"]
    /\ UNCHANGED <<inputVars, cursor, pc, loopVars, requests, active, workers,
                   thread, result, caller, drainCaller, exception, pending,
                   drainFails, expired>>

Worker == \E t \in 1..Len(threads) : WorkerRequest(t) \/ WorkerExit(t)

Main ==
    \/ SaveAppend
    \/ SaveGuess
    \/ SaveAppendLoop
    \/ SaveFileLoop
    \/ UploadAChunk
    \/ UploadAChunkThreaded
    \/ SendSynchronous
    \/ DrainBegin
    \/ DrainLoop
    \/ CollectJoin
    \/ CollectRead
    \/ CollectDel
    \/ ReapBegin
    \/ ReapLoop
    \/ ForceOne
    \/ StartThread

Next == Main \/ Worker

Spec == Init /\ [][Next]_vars

\* The calling thread keeps running, and so does every started thread.
FairSpec == Spec /\ WF_vars(Main) /\ WF_vars(Worker)

----------------------------------------------------------------------------
\* Vocabulary of the properties.

Terminal == pc \in {"returned", "raised"}

Reqs == 1..Len(requests)
Threads == 1..Len(threads)

\* the status request i ended with ("None": no result)
Status(i) ==
    IF requests[i].thread = 0 THEN requests[i].status
    ELSE threads[requests[i].thread].outcome

HasCommit(i) == requests[i].args.commit # NONE
HasPrepare(i) == requests[i].args.prepare # NONE
CommitSent == \E i \in Reqs : HasCommit(i)

\* sum of the size parameters of the requests issued before request i
RECURSIVE SizesBefore(_)
SizesBefore(i) ==
    IF i <= 1 THEN 0 ELSE SizesBefore(i - 1) + requests[i - 1].args.size

\* the call is _save_file with the true length of the content
KnownLength == ~append /\ size = L

Last(s) == s[Len(s)]

----------------------------------------------------------------------------
\* C1: in the threaded storage the commit request is sent only when every
\* interior request handed to a worker thread has completed with status 200;
\* when an interior request ended with another status, an error or no result,
\* no commit request is sent and _save raises.
C1_CommitOnlyAfterInteriorOk ==
    threaded =>
      /\ CommitSent => \A t \in Threads : threads[t].outcome = "200"
      /\ (Terminal /\ \E t \in Threads : threads[t].outcome # "200")
            => (pc = "raised" /\ ~CommitSent)

C1_Witness ==
    /\ threaded /\ pc = "raised" /\ ~CommitSent
    /\ Len(threads) = 3
    /\ threads[2].outcome = "500"
    /\ threads[1].outcome = "200" /\ threads[3].outcome = "200"

\* C2: content of known length L > MAX_CHUNK_SIZE: the first request carries
\* prepare = L, every request's offset is the sum of the sizes issued before it
\* (so offsets are contiguous from 0), each size is the length of the body
\* sent, and once _save returned the last request carries commit = L and the
\* sizes sum to L.
C2_KnownLengthRequests ==
    (KnownLength /\ L > MAX_CHUNK_SIZE) =>
      /\ requests # <<>> => requests[1].args.prepare = L
      /\ \A i \in Reqs :
            /\ requests[i].args.offset = SizesBefore(i)
            /\ requests[i].args.size = requests[i].len
            /\ requests[i].from = requests[i].args.offset
      /\ pc = "returned" =>
            /\ Last(requests).args.commit = L
            /\ SizesBefore(Len(requests) + 1) = L

C2_Witness ==
    /\ KnownLength /\ L = MaxLen /\ pc = "returned"
    /\ Len(requests) = 5 /\ requests[5].len = 1

\* C3: for every content of length 0 <= L < MAX_CHUNK_SIZE, save issues
\* exactly one upload request, which carries no offset, size, prepare or commit.
C3_OneRequestBelowChunkSize ==
    (Terminal /\ L < MAX_CHUNK_SIZE) =>
      /\ Len(requests) = 1
      /\ requests[1].args.offset = NONE /\ requests[1].args.size = NONE
      /\ requests[1].args.prepare = NONE /\ requests[1].args.commit = NONE

\* C4: a session of _save_file with two or more requests has exactly one
\* request with prepare, the first, and exactly one with commit, the last,
\* whatever length was declared; a session with one request has neither.
C4_OnePrepareOneCommit ==
    (pc = "returned" /\ ~append /\ size # NONE) =>
      /\ Len(requests) >= 2 =>
            /\ \A i \in Reqs : HasPrepare(i) <=> i = 1
            /\ \A i \in Reqs : HasCommit(i) <=> i = Len(requests)
      /\ Len(requests) = 1 => ~HasPrepare(1) /\ ~HasCommit(1)

\* C5: when save returns a key, every upload request of that save ended with
\* status 200; when a request ended otherwise, save raises.
C5_ReturnedMeansAllOk ==
    /\ pc = "returned" => \A i \in Reqs : Status(i) = "200"
    /\ (Terminal /\ \E i \in Reqs : Status(i) # "200") =>
          (pc = "raised" /\ pending # NoExc)

C5_Witness ==
    /\ threaded /\ pc = "returned" /\ Len(threads) = 3
    /\ \A t \in Threads : threads[t].state = "dead"

\* C6: threaded storage: the first request has completed with status 200 in
\* the calling thread before any request is handed to a worker thread, and no
\* worker request is running when the commit request is issued.
C6_FirstBeforeInteriorBeforeLast ==
    threaded =>
      /\ threads # <<>> =>
            (requests[1].thread = 0 /\ requests[1].status = "200"
             /\ requests[1].args.offset = 0)
      /\ (pc = "send" /\ request_args.commit # NONE) => InFlight = {}
      /\ CommitSent => InFlight = {}

C6_Witness ==
    /\ threaded /\ CommitSent /\ Len(threads) = 3
    /\ HasPrepare(1) /\ HasCommit(Len(requests))

\* C7: the number of worker requests in flight never exceeds
\* MAX_HTTP_SESSIONS, also after a join wait expired and the slot was removed
\* while its worker still runs.
C7_InFlightBounded == Cardinality(InFlight) <= MAX_HTTP_SESSIONS

C7_Witness ==
    /\ Cardinality(InFlight) = MAX_HTTP_SESSIONS
    /\ Len(threads) > MAX_HTTP_SESSIONS
    /\ \E t \in InFlight : t \notin Slots /\ t \in expired

\* What the step that starts a worker does to the slot map and the threads.
StartAddsOneSlot ==
    (pc = "start" /\ pc' # "start") =>
       LET t == Len(threads) + 1 IN
       /\ t \notin Slots
       /\ DOMAIN active' = Slots \cup {t}
       /\ active'[t] = "None"
       /\ Len(threads') = t
       /\ InFlight' = InFlight \cup {t}

InDrain(from) ==
    /\ drainCaller = from
    /\ \/ pc \in {"drain", "drain_loop"}
       \/ pc \in {"join", "read", "del"} /\ caller = "drain"

\* C9: the drain always ends (returns or raises): it never blocks forever,
\* and so every save terminates.
C9_DrainTerminates ==
    /\ \A from \in {"sync", "finally"} : InDrain(from) ~> ~InDrain(from)
    /\ <>Terminal

C9_Witness ==
    /\ threaded /\ pc = "send" /\ drainCaller = "sync"
    /\ Len(threads) = MAX_HTTP_SESSIONS + 1 /\ expired = {}

C11_SlotMapEmptyAfterSave == (threaded /\ Terminal) => Slots = {}

\* the request carries ioflags=2 and no offset, size, prepare or commit
IsAppendRequest(i) == requests[i].args = [NoArgs EXCEPT !.ioflags = 2]

\* sum of the lengths of the bodies of the requests issued before request i
RECURSIVE LensBefore(_)
LensBefore(i) ==
    IF i <= 1 THEN 0 ELSE LensBefore(i - 1) + requests[i - 1].len

\* C15 as claimed: with append=True the content goes out as append requests
\* of at most MAX_CHUNK_SIZE bytes each, none with prepare or commit, until
\* the content is exhausted.
C15_AppendInChunks ==
    append =>
      /\ \A i \in Reqs :
            /\ IsAppendRequest(i)
            /\ requests[i].len <= MAX_CHUNK_SIZE
      /\ pc = "returned" => LensBefore(Len(requests) + 1) = L

\* C15 amended: with append=True the content is sent in one append request
\* (ioflags=2, no offset, size, prepare or commit) that carries the whole
\* content whatever its length; nothing else is sent.
C15_OneAppendRequest ==
    append =>
      /\ Len(requests) <= 1
      /\ Terminal => Len(requests) = 1
      /\ \A i \in Reqs :
            /\ IsAppendRequest(i)
            /\ requests[i].from = 0 /\ requests[i].len = L
            /\ requests[i].thread = 0
            /\ (pc = "returned") <=> (requests[i].status = "200")

C15_Witness ==
    /\ append /\ pc = "returned" /\ L = MaxLen
    /\ Len(requests) = 1 /\ requests[1].len > MAX_CHUNK_SIZE

\* __guess_content_size raised NotImplementedError
UnknownLength == ~append /\ size = NONE

\* C16: content whose length cannot be determined: _save does not fail on
\* the missing length; it issues only append requests (ioflags=2, no offset,
\* size, prepare or commit) of at most MAX_CHUNK_SIZE bytes each, in the
\* calling thread, whose bodies are consecutive pieces of the content from
\* byte 0, and when _save returns the pieces make up the whole content.
C16_UnknownLengthAppends ==
    UnknownLength =>
      /\ pc \in {"save", "append_loop", "returned", "raised"}
      /\ \A i \in Reqs :
            /\ IsAppendRequest(i)
            /\ requests[i].len >= 1 /\ requests[i].len <= MAX_CHUNK_SIZE
            /\ requests[i].from = LensBefore(i)
            /\ requests[i].thread = 0
      /\ LensBefore(Len(requests) + 1) <= L
      /\ pc = "returned" => LensBefore(Len(requests) + 1) = L
      /\ pc = "raised" => (requests # <<>> /\ Last(requests).status # "200")

C16_Witness ==
    /\ UnknownLength /\ pc = "returned" /\ L = MaxStreamLen
    /\ Len(requests) = 3 /\ requests[3].len = 1

\* request i was sent by the calling thread and did not end with status 200
SyncFailed(i) == requests[i].thread = 0 /\ requests[i].status # "200"

\* C18: when a request sent by the calling thread (the first and the last
\* request of _save_file are) fails, with SaveError, TimeoutError or anything
\* else, no further upload request is issued: the failed request is the last
\* one of the log, on both storages, and _save raises.
C18_SyncFailureAborts ==
    /\ \A i \in Reqs : SyncFailed(i) => i = Len(requests)
    /\ (\E i \in Reqs : SyncFailed(i)) =>
          /\ pc \notin {"returned", "loop", "upload", "send", "reap",
                        "reap_loop", "force", "start", "append_loop"}
          /\ pending # NoExc

C18_Witness ==
    /\ threaded /\ pc = "raised" /\ Len(threads) = 3
    /\ HasCommit(Len(requests)) /\ Last(requests).status = "TimeoutError"
    /\ pending.type = "TimeoutError" /\ pending.src = 0

\* the step is one of worker t: its request ends
WorkerStep(t) ==
    threads[t].state = "running" /\ threads'[t].state # "running"

\* C19: threaded storage: the failure of a worker's request is stored in its
\* slot and raises nothing in the calling thread at that time; an exception
\* for worker t starts to propagate only in the step that collects the slot
\* of t (reap, forced join or drain) or at the end of the drain that held it;
\* and when _save has raised and no join wait expired, no worker of the
\* session is still running a request.
C19_InteriorFailureDeferred ==
    /\ [][\A t \in Threads : WorkerStep(t) =>
             /\ pc' = pc /\ pending' = pending /\ exception' = exception
             /\ threads'[t].outcome \in {"500", "TimeoutError", "BaseError"}
                   => (t \in DOMAIN active'
                       /\ active'[t] = threads'[t].outcome)]_vars
    /\ [][(pending' # pending /\ pending'.src # 0) =>
             \/ pc = "del" /\ thread = pending'.src
             \/ pc = "drain_loop" /\ workers = {} /\ pending' = exception]_vars
    /\ [][(exception' # exception /\ exception' # NoExc) =>
             (pc = "del" /\ caller = "drain"
              /\ thread = exception'.src)]_vars
    /\ []((threaded /\ pc = "raised" /\ expired = {}) => InFlight = {})

C19_Witness ==
    /\ threaded /\ pc = "raised" /\ expired = {} /\ Len(threads) = 3
    /\ pending = Exc("SaveError", "status", 1)
    /\ threads[1].outcome = "500" /\ threads[3].outcome = "200"

\* the failure a slot without a result is turned into
TimedOut(t) == Exc("BaseError", "One of requests timed out", t)

\* a failure is held by the drain or is propagating
Fault == pending # NoExc \/ exception # NoExc

\* C20: a slot collected while it holds no result (the join wait expired
\* before the worker stored one) is a failure of that chunk: the collecting
\* call raises BaseError('One of requests timed out'), from then on no
\* request is issued, so no commit, and _save raises.
C20_ExpiredJoinIsFatal ==
    /\ [][(pc = "del" /\ pc' # "del" /\ result = "None") =>
             IF caller = "drain"
             THEN exception' = TimedOut(thread) /\ pc' = "drain_loop"
             ELSE pending' = TimedOut(thread) /\ pc' = "drain"]_vars
    /\ [][Fault => (Fault' /\ requests' = requests)]_vars
    /\ []((Fault /\ Terminal) => (pc = "raised" /\ pending # NoExc))

C20_Witness ==
    /\ pc = "raised" /\ ~CommitSent
    /\ \E t \in expired :
         /\ pending = TimedOut(t)
         /\ threads[t].state = "running"

\* the failures of an upload request that _save can raise: a non-200 status,
\* exhausted retries, a slot collected without a result
UploadFailures == {"status", "retries", "One of requests timed out"}

\* C21: every exception that save() on the threaded storage raises because
\* an upload request failed (non-200 status, exhausted retries, expired join
\* wait, worker ended without a result) is a SaveError or a TimeoutError.
C21_UploadFailureIsSaveError ==
    (threaded /\ pc = "raised" /\ pending.msg \in UploadFailures)
        => IsSaveError(pending.type)

\* C29: when the request of a worker ends, however it ends (a response of
\* any status, exhausted retries, a name-resolution failure, any other
\* exception of the transport), the slot of the worker holds the response or
\* the failure and not the None it was created with.
C29_SlotFilledWhenWorkerEnds ==
    [][\A t \in Threads :
          (WorkerStep(t) /\ t \in Slots) =>
             (t \in DOMAIN active' /\ active'[t] # "None")]_vars

\* the slot of thread t was removed by __collect_thread_status_and_kill
Reconciled(t) == t \in Threads /\ t \notin Slots

\* C30: a slot that was reconciled never comes back into the slot map, also
\* when its join wait had expired and its worker stores a result later.
C30_ReconciledSlotStaysOut ==
    [][\A t \in Threads : Reconciled(t) => t \notin DOMAIN active']_vars

\* The requests EllipticsStorage._save_file issues from offset up on for the
\* content of this call (L bytes, declared length size) when each request is
\* answered with 200: one per non-empty chunk, in the order of the loop.
RECURSIVE SaveFileSession(_)
SaveFileSession(up) ==
    LET chunk_length == Min(MAX_CHUNK_SIZE, L - up)
        next_chunk_length == Min(MAX_CHUNK_SIZE, L - up - chunk_length)
    IN  IF chunk_length = 0 THEN <<>>
        ELSE <<[args |-> RequestArgs(up, chunk_length, next_chunk_length, size),
                from |-> up, len |-> chunk_length]>>
             \o SaveFileSession(up + chunk_length)

\* C22: for the same content and declared length, the requests issued by the
\* threaded storage are those of the synchronous storage: request by request
\* the same offset, size, prepare and commit parameters and the same body, as
\* far as the session got and all of them once _save returned; on the
\* threaded storage the first and the last of them are sent by the calling
\* thread and exactly the interior ones by workers, whose completion order
\* is free.
C22_SameRequestsAsSynchronous ==
    (~append /\ size # NONE) =>
      LET S == SaveFileSession(0) IN
      /\ Len(requests) <= Len(S)
      /\ \A i \in Reqs :
            /\ requests[i].args = S[i].args
            /\ requests[i].from = S[i].from
            /\ requests[i].len = S[i].len
            /\ threaded => (requests[i].thread = 0 <=> i \in {1, Len(S)})
            /\ ~threaded => requests[i].thread = 0
      /\ pc = "returned" => Len(requests) = Len(S)

C22_Witness ==
    /\ threaded /\ ~append /\ size = L /\ pc = "returned"
    /\ Len(requests) = 5 /\ Len(requests) = Len(SaveFileSession(0))
    /\ requests[2].thread = 1 /\ requests[4].thread = 3
    /\ \A t \in Threads : threads[t].outcome = "200"

----------------------------------------------------------------------------
\* The remote store, as far as the upload and get requests go: the object
\* under one key, and the byte ranges written for it but not committed yet.

\* bytes are numbers; the bytes of an object stored before differ from those
\* of the content being saved
OldObjects == {Absent, Object(<<100>>), Object(<<100, 101, 102>>)}

\* byte range written at offset off (staged maps offsets to bytes)
WriteAt(staged, off, body) ==
    [k \in (DOMAIN staged) \cup (off..(off + Len(body) - 1)) |->
        IF k >= off /\ k < off + Len(body) THEN body[k - off + 1]
        ELSE staged[k]]

\* the object a commit of n bytes makes of the ranges written
Committed(staged, n) ==
    [k \in 1..n |-> IF (k - 1) \in DOMAIN staged THEN staged[k - 1] ELSE NONE]

\* The store after a request with parameters args and body body that it
\* answered with 200.
ApplyRequest(store, args, body) ==
    CASE args.ioflags = 2 ->
           \* append: extends the object, which begins empty
           Object(store.data \o body)
      [] args.offset = NONE /\ args.commit = NONE /\ args.prepare = NONE ->
           \* plain upload: the body is the object
           Object(body)
      [] OTHER ->
           LET base == IF args.prepare # NONE THEN <<>> ELSE store.staged
               off == IF args.offset = NONE THEN 0 ELSE args.offset
               written == WriteAt(base, off, body)
           IN  IF args.commit # NONE
               THEN Object(Committed(written, args.commit))
               ELSE [store EXCEPT !.staged = written]

\* the store after a request on the delete URL of the key
Remove(store) == Absent

\* GET of the key: the content, or a status other than 200
Fetch(store) ==
    IF store.exists THEN [status |-> "200", content |-> store.data]
    ELSE [status |-> "404", content |-> <<>>]


\* the bytes of the content being saved, and of a piece of it
Content == [k \in 1..L |-> k - 1]
Body(i) == [k \in 1..requests[i].len |-> requests[i].from + k - 1]

\* the store after the first n requests of the log, those it answered with
\* 200 applied in issue order
RECURSIVE StoreAfter(_, _)
StoreAfter(old, n) ==
    IF n = 0 THEN old
    ELSE LET before == StoreAfter(old, n - 1) IN
         IF Status(n) = "200"
         THEN ApplyRequest(before, requests[n].args, Body(n))
         ELSE before

\* C14: round trip: after a save of a content X that returned, a read of the
\* key gives exactly X, for X empty, of one byte, of MAX_CHUNK_SIZE bytes or
\* of several chunks.
C14_RoundTrip ==
    (pc = "returned" /\ ~append /\ size = L) =>
       \A old \in OldObjects :
          Fetch(StoreAfter(old, Len(requests))) = Returned(Content)

\* C34: a non-append save replaces the object: once _save returned, the
\* object under the key is the content X, whatever object the key held
\* before, for a content of known length and for one whose length cannot be
\* determined.
C34_SaveReplaces ==
    (pc = "returned" /\ ~append /\ size \in {L, NONE}) =>
       \A old \in OldObjects :
          StoreAfter(old, Len(requests)) = Object(Content)

----------------------------------------------------------------------------
\* One call of _timeout_request(method, url), attempt by attempt.

TIMEOUT_GET == 3
TIMEOUT_POST == 5

\* "PUT" stands for any method _request does not accept
Methods == {"POST", "GET", "HEAD", "PUT"}

\* _request: "if method in ('POST', 'GET', 'HEAD')"
Accepted(m) == m \in {"POST", "GET", "HEAD"}

\* "if method == 'POST': retries = self.retries_post ... else: retries =
\* self.retries_get"
BudgetOf(m) == IF m = "POST" THEN retries_post ELSE retries_get
TimeoutOf(m) == IF m = "POST" THEN TIMEOUT_POST ELSE TIMEOUT_GET

\* the value xrange gives retry_count next
NextIndex == IF retry_count = NONE THEN 0 ELSE retry_count + 1

\* LoopContinues with one iteration too many.
LoopContinues_OffByOne(i, n) == i <= n

\* "for retry_count in xrange(retries)"
LoopContinues(i, n) == i < n

\* Retried that also tries again after an error status.
Retried_ErrorStatus(a) == a \in {"timeout", "500"}

\* "except requests.Timeout": the only outcome that goes round the loop
Retried(a) == a = "timeout"

\* the operations followed: a call of _timeout_request with any method,
\* _fetch, and delete and exists, which EllipticsStorage inherits
Operations == {"_timeout_request", "_fetch", "delete", "exists"}

\* one call on self.session: the verb and the timeout it is given
Call(verb, t) == [verb |-> verb, timeout |-> t]

\* _fetch: "response = self._timeout_request('GET', url)"; delete and exists
\* call self.session themselves: no method is handed to _timeout_request
InitExec ==
    /\ SaveIdle /\ FileIdle /\ SessionsIdle
    /\ operation \in Operations
    /\ method \in CASE operation = "_timeout_request" -> Methods
                   [] operation = "_fetch" -> {"GET"}
                   [] OTHER -> {"none"}
    /\ retries_post \in 0..MaxRetries
    /\ retries_get \in 0..MaxRetries
    /\ retries = NONE /\ timeout = NONE /\ retry_count = NONE
    /\ attempts = <<>> /\ response = "None"
    /\ xpc = IF operation \in {"delete", "exists"} THEN "direct" ELSE "call"
    /\ session = <<>> /\ opresult = "None"

\* the choice of the budget
TimeoutRequestCall ==
    /\ xpc = "call"
    /\ retries' = BudgetOf(method)
    /\ timeout' = TimeoutOf(method)
    /\ xpc' = "loop"
    /\ UNCHANGED <<saveVars, sessionVars, fileVars, method, retries_post, retries_get,
                   retry_count, attempts, response, operation, session,
                   opresult>>

\* one iteration of the loop: self._request(method, url, timeout=timeout)
TimeoutRequestAttempt ==
    /\ xpc = "loop"
    /\ LoopContinues(NextIndex, retries)
    /\ retry_count' = NextIndex
    /\ IF ~Accepted(method)
       THEN \* NotImplementedError, which no except clause catches
            /\ response' = "NotImplementedError"
            /\ xpc' = "raised"
            /\ UNCHANGED <<attempts, session>>
       ELSE \E a \in Attempt :
            /\ attempts' = Append(attempts, a)
            /\ session' = Append(session, Call(method, timeout))
            /\ IF Retried(a)
               THEN xpc' = "loop" /\ UNCHANGED response
               ELSE CASE a = "gaierror" ->
                           response' = "BaseError" /\ xpc' = "raised"
                      [] a = "error" ->
                           response' = "Error" /\ xpc' = "raised"
                      [] OTHER ->
                           response' = a /\ xpc' = "returned"
    /\ UNCHANGED <<saveVars, sessionVars, fileVars, method, retries_post, retries_get,
                   retries, timeout, operation, opresult>>

\* the else clause of the loop: "logger.error(..., retry_count + 1, ...)" and
\* "raise TimeoutError(error_message)"
TimeoutRequestExhausted ==
    /\ xpc = "loop"
    /\ ~LoopContinues(NextIndex, retries)
    /\ response' = IF retry_count = NONE THEN "UnboundLocalError"
                   ELSE "TimeoutError"
    /\ xpc' = "raised"
    /\ UNCHANGED <<saveVars, sessionVars, fileVars, method, retries_post, retries_get,
                   retries, timeout, retry_count, attempts, operation,
                   session, opresult>>

\* FetchResult that takes any response for the content.
FetchResult_AnyStatus(r) == "content"

\* _fetch: "if response.status_code != 200: raise ReadError(response)",
\* else "return response.content"
FetchResult(r) == IF r # "200" THEN "ReadError" ELSE "content"

\* _fetch after its call of _timeout_request: an exception of the call goes
\* through, a response is turned into the content or a ReadError
FetchEnd ==
    /\ operation = "_fetch" /\ opresult = "None"
    /\ xpc \in {"returned", "raised"}
    /\ opresult' = IF xpc = "raised" THEN response ELSE FetchResult(response)
    /\ UNCHANGED <<saveVars, sessionVars, fileVars, method, retries_post, retries_get,
                   retries, timeout, retry_count, attempts, response, xpc,
                   operation, session>>

\* what a call on the session that was given no timeout can do: it waits
\* for the answer, however long
Direct == Attempt \ {"timeout"}

\* BaseEllipticsStorage.delete: "self.session.get(url)"; the response is
\* dropped, an exception of the transport goes through
Delete ==
    /\ operation = "delete" /\ xpc = "direct"
    /\ \E a \in Direct :
         /\ session' = Append(session, Call("GET", NONE))
         /\ opresult' = IF a \in {"200", "500"} THEN "returned" ELSE "Error"
    /\ xpc' = "done"
    /\ UNCHANGED <<saveVars, sessionVars, fileVars, method, retries_post, retries_get,
                   retries, timeout, retry_count, attempts, response,
                   operation>>

\* BaseEllipticsStorage.exists: "r = self.session.head(url); return
\* r.status_code == 200"
Exists ==
    /\ operation = "exists" /\ xpc = "direct"
    /\ \E a \in Direct :
         /\ session' = Append(session, Call("HEAD", NONE))
         /\ opresult' = CASE a = "200" -> "True"
                         [] a = "500" -> "False"
                         [] OTHER -> "Error"
    /\ xpc' = "done"
    /\ UNCHANGED <<saveVars, sessionVars, fileVars, method, retries_post, retries_get,
                   retries, timeout, retry_count, attempts, response,
                   operation>>

NextExec ==
    \/ TimeoutRequestCall
    \/ TimeoutRequestAttempt
    \/ TimeoutRequestExhausted
    \/ FetchEnd
    \/ Delete
    \/ Exists

ExecSpec == InitExec /\ [][NextExec]_vars

ExecDone == xpc \in {"returned", "raised"}
AllTimedOut == \A k \in 1..Len(attempts) : attempts[k] = "timeout"

\* C12: with a budget N >= 1 (retries_post for POST, retries_get for GET and
\* HEAD) and a transport that times out at every attempt, _timeout_request
\* issues exactly N requests and then raises TimeoutError: never more than N
\* requests, and no TimeoutError before the N-th.
C12_ExactlyNAttempts ==
    Accepted(method) =>
      /\ xpc # "call" => retries = (IF method = "POST" THEN retries_post
                                    ELSE retries_get)
      /\ xpc # "call" /\ retries >= 1 => Len(attempts) <= retries
      /\ response = "TimeoutError" =>
            (Len(attempts) = retries /\ AllTimedOut /\ retries >= 1)
      /\ (ExecDone /\ AllTimedOut /\ retries >= 1) =>
            (xpc = "raised" /\ response = "TimeoutError"
             /\ Len(attempts) = retries)

C12_Witness ==
    /\ method = "HEAD" /\ retries_get = 3 /\ retries_post = 1
    /\ xpc = "raised" /\ response = "TimeoutError" /\ Len(attempts) = 3

\* C13: a request is issued again only after a timeout: a response of any
\* status ends the call with that response at that attempt, a name-resolution
\* failure ends it with BaseError, and nothing is issued afterwards.
C13_RetryOnlyAfterTimeout ==
    /\ \A k \in 1..(Len(attempts) - 1) : attempts[k] = "timeout"
    /\ xpc = "returned" =>
          (response \in {"200", "500"} /\ response = Last(attempts))
    /\ (attempts # <<>> /\ Last(attempts) \in {"200", "500"}) =>
          (xpc = "returned" /\ response = Last(attempts))
    /\ (attempts # <<>> /\ Last(attempts) = "gaierror") =>
          (xpc = "raised" /\ response = "BaseError")

C13_Witness ==
    /\ method = "POST" /\ retries_post = 3
    /\ attempts = <<"timeout", "500">> /\ xpc = "returned"

\* C26: a read through _fetch is one call of _timeout_request with method GET
\* and the read budget: every request it issues is a GET given timeout_get,
\* there are at most retries_get of them and each but the last timed out; a
\* response whose status is not 200 raises ReadError and gives no content,
\* status 200 gives the content; and a POST is given the write budget,
\* timeout_post and retries_post.
C26_FetchUsesReadBudget ==
    /\ operation = "_fetch" =>
          /\ method = "GET"
          /\ xpc # "call" => (retries = retries_get /\ timeout = TIMEOUT_GET)
          /\ \A k \in 1..Len(session) : session[k] = Call("GET", TIMEOUT_GET)
          /\ Len(session) <= retries_get
          /\ \A k \in 1..(Len(session) - 1) : attempts[k] = "timeout"
          /\ opresult = "content" => (xpc = "returned" /\ response = "200")
          /\ (opresult # "None" /\ xpc = "returned" /\ response # "200")
                => opresult = "ReadError"
          /\ (opresult # "None" /\ xpc = "raised") => opresult = response
    /\ (method = "POST" /\ xpc # "call") =>
          /\ retries = retries_post /\ timeout = TIMEOUT_POST
          /\ \A k \in 1..Len(session) : session[k] = Call("POST", TIMEOUT_POST)

C26_Witness ==
    /\ operation = "_fetch" /\ opresult = "ReadError"
    /\ attempts = <<"timeout", "500">>
    /\ retries_get = 2 /\ retries_post = 3

\* C32: with a retry budget of 0 for its method, _timeout_request issues no
\* request and raises TimeoutError, and no other exception.
C32_ZeroBudgetIsTimeoutError ==
    (operation \in {"_timeout_request", "_fetch"} /\ xpc # "call"
     /\ retries = 0) =>
        /\ attempts = <<>> /\ session = <<>>
        /\ ExecDone => (xpc = "raised" /\ response = "TimeoutError")

\* C27: delete is issued as a POST and exists as a HEAD, both through
\* _timeout_request: each call on the session carries the verb of the
\* operation and the timeout of that verb.
C27_DeleteExistsThroughExecutor ==
    /\ operation = "delete" =>
          \A k \in 1..Len(session) : session[k] = Call("POST", TIMEOUT_POST)
    /\ operation = "exists" =>
          \A k \in 1..Len(session) : session[k] = Call("HEAD", TIMEOUT_GET)

----------------------------------------------------------------------------
\* One key of the store, saves of strings to it and one EllipticsFile on it
\* (storage/base.py), operation by operation, on the synchronous storage.

\* the strings given to save(): empty, one byte, exactly one chunk, two
\* chunks, three chunks; and those given to write()
Bytes(first, n) == [k \in 1..n |-> first + k - 1]
SaveContents ==
    {Bytes(1, n) : n \in {0, 1, MAX_CHUNK_SIZE, MAX_CHUNK_SIZE + 1,
                          2 * MAX_CHUNK_SIZE + 1}}
WriteContents == {Bytes(50, n) : n \in {0, 1, MAX_CHUNK_SIZE + 1}}

\* the requests _save_file issues for the string X from offset up on, when
\* each is answered with 200
RECURSIVE SaveFileRequests(_, _)
SaveFileRequests(X, up) ==
    LET chunk_length == Min(MAX_CHUNK_SIZE, Len(X) - up)
        next_chunk_length == Min(MAX_CHUNK_SIZE, Len(X) - up - chunk_length)
    IN  IF chunk_length = 0 THEN <<>>
        ELSE <<[args |-> RequestArgs(up, chunk_length, next_chunk_length,
                                     Len(X)),
                body |-> SubSeq(X, up + 1, up + chunk_length)]>>
             \o SaveFileRequests(X, up + chunk_length)

\* _save(name, X, append) for a string X
SaveRequests(X, app) ==
    IF app THEN <<[args |-> [NoArgs EXCEPT !.ioflags = 2], body |-> X]>>
    ELSE SaveFileRequests(X, 0)

\* what goes out when the store answers request number fail with 500 and
\* the ones before with 200 (fail = 0: 200 to all)
Issued(reqs, fail) ==
    [i \in 1..(IF fail = 0 THEN Len(reqs) ELSE fail) |->
        [method |-> "POST", args |-> reqs[i].args, body |-> reqs[i].body,
         status |-> IF i = fail THEN "500" ELSE "200"]]

\* the requests the store may answer with 500: none (0), the first, the last
FailAt(reqs) == {k \in {0, 1, Len(reqs)} : k <= Len(reqs)}

\* the store after the first n of the requests iss
RECURSIVE RemoteAfter(_, _, _)
RemoteAfter(store, iss, n) ==
    IF n = 0 THEN store
    ELSE LET before == RemoteAfter(store, iss, n - 1) IN
         IF iss[n].status = "200"
         THEN ApplyRequest(before, iss[n].args, iss[n].body)
         ELSE before

\* StringIO.write(B) at the position pos
WriteInto(data, pos, B) ==
    LET end == IF pos + Len(B) > Len(data) THEN pos + Len(B) ELSE Len(data)
    IN  [k \in 1..end |-> IF k > pos /\ k <= pos + Len(B) THEN B[k - pos]
                          ELSE data[k]]

InitFile ==
    /\ SaveIdle /\ ExecIdle /\ SessionsIdle
    /\ remote \in OldObjects
    /\ _mode = "none" /\ _stream = NoStream
    /\ op = "idle" /\ sent = <<>> /\ fresult = Gave("None")
    /\ saved = NoData /\ appended = <<>>

\* storage._save(key, X) for a string X; the caller saves between its uses
\* of file handles, not while one holds a buffer
FileSave ==
    /\ ~_stream.set
    /\ \E X \in SaveContents :
       \E fail \in FailAt(SaveRequests(X, FALSE)) :
       LET iss == Issued(SaveRequests(X, FALSE), fail) IN
       /\ sent' = iss
       /\ remote' = RemoteAfter(remote, iss, Len(iss))
       /\ fresult' = IF fail = 0 THEN Gave("key") ELSE Gave("SaveError")
       /\ saved' = IF fail = 0 THEN Data(X) ELSE NoData
       /\ appended' = <<>>
       /\ op' = "save"
       /\ UNCHANGED <<saveVars, sessionVars, execVars, _mode, _stream>>

\* storage.open(key, mode): EllipticsFile(name, storage, mode)
FileOpen ==
    \E m \in {"r", "w", "a"} :
       /\ _mode' = m
       /\ _stream' = NoStream
       /\ op' = "open" /\ sent' = <<>> /\ fresult' = Gave("file")
       /\ UNCHANGED <<saveVars, sessionVars, execVars, remote, saved, appended>>

\* MayWrite that lets every handle write.
MayWrite_AnyMode(m) == TRUE

\* read: "if self._mode != 'r': raise ModeError"; write: "if self._mode not
\* in ('w', 'a'): raise ModeError"
MayRead(m) == m = "r"
MayWrite(m) == m \in {"w", "a"}

\* EllipticsFile.read(num_bytes)
FileRead ==
    /\ _mode # "none"
    /\ op' = "read"
    /\ \E num_bytes \in {NONE, 1} :
       LET Read(st) ==
             LET end == IF num_bytes = NONE
                        THEN Len(st.data)
                        ELSE Min(Len(st.data), st.pos + num_bytes)
             IN  /\ fresult' = Returned(SubSeq(st.data, st.pos + 1, end))
                 /\ _stream' = StringIO(st.data, end)
       IN  IF ~MayRead(_mode)
           THEN /\ fresult' = Gave("ModeError")
                /\ sent' = <<>>
                /\ UNCHANGED _stream
           ELSE IF ~_stream.set
           THEN LET answer == Fetch(remote) IN
                /\ sent' = <<[method |-> "GET", args |-> NoArgs,
                              body |-> <<>>, status |-> answer.status]>>
                /\ IF answer.status # "200"
                   THEN fresult' = Gave("ReadError") /\ UNCHANGED _stream
                   ELSE Read(StringIO(answer.content, 0))
           ELSE sent' = <<>> /\ Read(_stream)
    /\ UNCHANGED <<saveVars, sessionVars, execVars, remote, _mode, saved, appended>>

\* EllipticsFile.write(content)
FileWrite ==
    /\ _mode # "none"
    /\ op' = "write" /\ sent' = <<>>
    /\ \E B \in WriteContents :
         IF ~MayWrite(_mode)
         THEN fresult' = Gave("ModeError") /\ UNCHANGED _stream
         ELSE LET st == IF _stream.set THEN _stream ELSE StringIO(<<>>, 0)
              IN  /\ st.pos + Len(B) <= MaxBuffer
                  /\ _stream' = StringIO(WriteInto(st.data, st.pos, B),
                                         st.pos + Len(B))
                  /\ fresult' = Gave("None")
    /\ UNCHANGED <<saveVars, sessionVars, execVars, remote, _mode, saved, appended>>

\* Flushes that sends the buffer of a handle of any mode.
Flushes_AnyMode(st, m) == st.set

\* close: "if self._stream is None: return" and "if self._mode in ('w',
\* 'a')": the buffer st of a handle of mode m is sent
Flushes(st, m) == st.set /\ m \in {"w", "a"}

\* EllipticsFile.close()
FileClose ==
    /\ _mode # "none"
    /\ op' = "close"
    /\ IF ~Flushes(_stream, _mode)
       THEN /\ sent' = <<>> /\ fresult' = Gave("None")
            /\ UNCHANGED <<remote, saved, appended>>
       ELSE \E fail \in FailAt(SaveRequests(_stream.data, _mode = "a")) :
            LET iss == Issued(SaveRequests(_stream.data, _mode = "a"), fail)
                \* the history follows up to two appends after a save
                kept == /\ _mode = "a" /\ fail = 0
                        /\ saved.known /\ Len(appended) < 2
            IN  /\ sent' = iss
                /\ remote' = RemoteAfter(remote, iss, Len(iss))
                /\ Len(remote'.data) <= MaxObject
                /\ fresult' = IF fail = 0 THEN Gave("None")
                              ELSE Gave("SaveError")
                /\ saved' = IF kept THEN saved ELSE NoData
                /\ appended' = IF kept THEN Append(appended, _stream.data)
                               ELSE <<>>
    /\ UNCHANGED <<saveVars, sessionVars, execVars, _mode, _stream>>

\* one call on the session that carries no upload parameters and no body
Plain(verb, status) ==
    [method |-> verb, args |-> NoArgs, body |-> <<>>, status |-> status]

\* storage.delete(key): "self.session.get(url)" on the delete URL of the
\* key, which the store applies; like save, between the uses of file handles
FileDelete ==
    /\ ~_stream.set
    /\ sent' = <<Plain("GET", "200")>>
    /\ remote' = Remove(remote)
    /\ fresult' = Gave("None")
    /\ saved' = NoData /\ appended' = <<>>
    /\ op' = "delete"
    /\ UNCHANGED <<saveVars, sessionVars, execVars, _mode, _stream>>

\* storage.exists(key): "r = self.session.head(url); return r.status_code
\* == 200" on the get URL of the key
FileExists ==
    /\ ~_stream.set
    /\ LET answer == Fetch(remote) IN
       /\ sent' = <<Plain("HEAD", answer.status)>>
       /\ fresult' = Gave(IF answer.status = "200" THEN "True" ELSE "False")
    /\ op' = "exists"
    /\ UNCHANGED <<saveVars, sessionVars, execVars, remote, _mode, _stream, saved,
                   appended>>

NextFile ==
    \/ FileSave
    \/ FileOpen
    \/ FileRead
    \/ FileWrite
    \/ FileClose
    \/ FileDelete
    \/ FileExists

FileSpec == InitFile /\ [][NextFile]_vars

\* the bodies of the requests reqs, one after the other
RECURSIVE Bodies(_)
Bodies(reqs) ==
    IF reqs = <<>> THEN <<>> ELSE Head(reqs).body \o Bodies(Tail(reqs))

\* C17: append end to end: after save(key, A) returned, a handle opened in
\* mode 'a', written B and closed once sends B in requests that carry
\* ioflags=2, and a read through a new 'r' handle then returns A + B.
C17_AppendEndToEnd ==
    /\ [][(op' = "close" /\ _mode = "a" /\ _stream.set) =>
             /\ sent' # <<>>
             /\ \A i \in 1..Len(sent') : sent'[i].args.ioflags = 2
             /\ fresult' = Gave("None") => Bodies(sent') = _stream.data]_vars
    /\ [][(op' = "read" /\ _mode = "r" /\ ~_stream.set /\ saved.known
           /\ Len(appended) = 1) =>
             \E num_bytes \in {NONE, 1} :
                fresult' = Returned(
                   IF num_bytes = NONE THEN saved.data \o appended[1]
                   ELSE SubSeq(saved.data \o appended[1], 1,
                               Min(1, Len(saved.data \o appended[1]))))]_vars

\* C25: mode protection: read() on a handle opened in 'w' or 'a' mode and
\* write() on a handle opened in 'r' mode raise ModeError, issue no HTTP
\* request and leave the buffer of the handle and the store as they were; and
\* close() of a handle whose buffer is unset, as it still is when the refused
\* call was all that was done with the handle, sends nothing.
C25_ModeProtection ==
    /\ [][(\/ op' = "read" /\ _mode \in {"w", "a"}
           \/ op' = "write" /\ _mode = "r") =>
             /\ fresult' = Gave("ModeError")
             /\ sent' = <<>>
             /\ _stream' = _stream
             /\ remote' = remote]_vars
    /\ [][(op' = "close" /\ ~_stream.set) =>
             (sent' = <<>> /\ remote' = remote /\ ~_stream'.set)]_vars

C25_Witness ==
    /\ op = "read" /\ _mode = "a" /\ fresult = Gave("ModeError")
    /\ ~_stream.set /\ sent = <<>> /\ remote # Absent

\* C28: exists(key) is True right after a save(key, X) that returned and
\* False right after a delete(key), wherever in a sequence of saves and
\* deletes on the key they stand.
C28_ExistsFollowsSaveDelete ==
    [][op' = "exists" =>
          /\ (op = "save" /\ fresult = Gave("key")) => fresult' = Gave("True")
          /\ op = "delete" => fresult' = Gave("False")]_vars

\* C35: close() sends the buffer of a 'w' or 'a' handle at most once: a
\* close() that follows a close() of the same handle issues no request.
C35_SecondCloseSendsNothing ==
    [][(op = "close" /\ op' = "close") => sent' = <<>>]_vars

\* C36: a handle opened in 'w' or 'a' mode has no buffer until a write()
\* succeeded, and closing it while it has none issues no request and leaves
\* the remote object as it was; closing an 'r' handle, whether it has read
\* or not, issues no request either.
C36_CloseWithoutWriteIsSilent ==
    /\ [][op' = "open" => ~_stream'.set]_vars
    /\ [][(_mode' \in {"w", "a"} /\ ~_stream.set /\ _stream'.set) =>
             (op' = "write" /\ fresult' = Gave("None"))]_vars
    /\ [][(op' = "close" /\ (_mode = "r" \/ ~_stream.set)) =>
             (sent' = <<>> /\ remote' = remote
              /\ fresult' = Gave("None"))]_vars

C36_Witness ==
    /\ op = "close" /\ _mode = "r" /\ _stream.set /\ _stream.data # <<>>
    /\ sent = <<>> /\ fresult = Gave("None")

----------------------------------------------------------------------------
\* The older generation of the storage, storage.py: EllipticsStorage._save
\* and _save_file.  _save_with_append, _upload_a_chunk and _create_chunk
\* are the same there as in storage/simple.py.

Max(a, b) == IF a > b THEN a ELSE b

\* OldRequestArgs without the heuristic reservation: prepare is the declared
\* length or nothing.
OldRequestArgs_NoHeuristic(up, chunk_length, next_chunk_length, len) ==
    LET only == (up = 0 /\ next_chunk_length = 0)
        first == (up = 0 /\ next_chunk_length > 0)
        last == (up > 0 /\ next_chunk_length = 0)
    IN  [offset  |-> IF ~only THEN up ELSE NONE,
         size    |-> IF ~only THEN chunk_length ELSE NONE,
         prepare |-> IF first /\ len # NONE THEN len ELSE NONE,
         commit  |-> IF last THEN up + chunk_length ELSE NONE,
         ioflags |-> NONE]

\* The request parameters storage.py's _save_file gives the chunk it sends
\* at offset up.
OldRequestArgs(up, chunk_length, next_chunk_length, len) ==
    LET only == (up = 0 /\ next_chunk_length = 0)
        first == (up = 0 /\ next_chunk_length > 0)
        last == (up > 0 /\ next_chunk_length = 0)
    IN  [offset  |-> IF ~only THEN up ELSE NONE,
         size    |-> IF ~only THEN chunk_length ELSE NONE,
         \* "if length is not None and self.MAX_CHUNK_SIZE < length"
         prepare |-> IF ~first THEN NONE
                     ELSE IF len # NONE /\ MAX_CHUNK_SIZE < len THEN len
                     ELSE Max(AVERAGE_FILE_SIZE * 2, chunk_length),
         commit  |-> IF last THEN up + chunk_length ELSE NONE,
         ioflags |-> NONE]

\* a call of _save on the synchronous EllipticsStorage of storage.py
InitOld ==
    /\ InitSave /\ ~threaded
    /\ AVERAGE_FILE_SIZE \in 0..MaxAverage
    /\ ExecIdle /\ FileIdle /\ SessionsIdle

\* _save(append=False): "length = None" when the size cannot be guessed,
\* then _save_file up to its loop: uploaded = 0 and the first chunk.
OldSaveGuess ==
    /\ pc = "save" /\ ~append
    /\ LET c == _create_chunk(0, MAX_CHUNK_SIZE) IN
       /\ length' = size
       /\ next_chunk' = c
       /\ cursor' = CursorAfter(c)
    /\ uploaded' = 0
    /\ pc' = "loop"
    /\ UNCHANGED <<inputVars, chunk, request_args, synchronous, requests,
                   poolVars, pending>>

\* _save_file: the loop test and, when it passes, the head of an iteration up
\* to the call of _upload_a_chunk.  The lookahead is
\* "self._create_chunk(content, uploaded, self.MAX_CHUNK_SIZE)".
OldSaveFileLoop ==
    /\ pc = "loop"
    /\ IF next_chunk.len > 0
       THEN LET c == _create_chunk(uploaded, MAX_CHUNK_SIZE) IN
            /\ chunk' = next_chunk
            /\ next_chunk' = c
            /\ cursor' = CursorAfter(c)
            /\ request_args' =
                  OldRequestArgs(uploaded, next_chunk.len, c.len, length)
            /\ synchronous' = IsSynchronous(uploaded, c.len)
            /\ pc' = "upload"
            /\ UNCHANGED pending
       ELSE /\ pc' = "returned"              \* return name
            /\ pending' = NoExc
            /\ UNCHANGED <<chunk, next_chunk, cursor, request_args, synchronous>>
    /\ UNCHANGED <<inputVars, length, uploaded, requests, poolVars>>

NextOld ==
    \/ SaveAppend
    \/ OldSaveGuess
    \/ OldSaveFileLoop
    \/ UploadAChunk

OldSpec == InitOld /\ [][NextOld]_vars

\* the first request of the session is "the first request and more to come"
MultiChunk == requests # <<>> /\ requests[1].args.offset # NONE

\* C23 as stated: in a multi-chunk session of storage.py's _save_file the
\* first request carries prepare = the declared length whenever a length is
\* known, and max(2 * AVERAGE_FILE_SIZE, first chunk length) when it is not,
\* whatever the declared length and the content are.
C23_PrepareLengthIfKnown ==
    (~append /\ MultiChunk) =>
        requests[1].args.prepare =
            IF size # NONE THEN size
            ELSE Max(2 * AVERAGE_FILE_SIZE, requests[1].len)

\* C23, amended: the first request of a multi-chunk session carries
\* prepare = the declared length when it is known and greater than
\* MAX_CHUNK_SIZE, and max(2 * AVERAGE_FILE_SIZE, first chunk length) when
\* the length is unknown or not above MAX_CHUNK_SIZE; no other request of
\* the session carries prepare.
C23_PrepareDeclaredOrHeuristic ==
    ~append =>
      /\ MultiChunk =>
            requests[1].args.prepare =
                IF size # NONE /\ MAX_CHUNK_SIZE < size THEN size
                ELSE Max(2 * AVERAGE_FILE_SIZE, requests[1].len)
      /\ \A i \in Reqs : (i > 1 \/ ~MultiChunk) => ~HasPrepare(i)

C23_Witness ==
    /\ ~append /\ stream /\ pc = "returned" /\ Len(requests) >= 2
    /\ size # NONE /\ size <= MAX_CHUNK_SIZE
    /\ requests[1].len > 2 * AVERAGE_FILE_SIZE
    /\ requests[1].args.prepare = requests[1].len

\* the number of requests of the log that carry byte b of the content
TimesSent(b) ==
    Cardinality({i \in Reqs : requests[i].from <= b
                              /\ b < requests[i].from + requests[i].len})

\* C24: in storage.py's _save_file the lookahead chunk of every iteration is
\* the byte range right after the current chunk, for streams and for byte
\* strings; so once _save returned every byte of the content was sent exactly
\* once, and a content that fits in one chunk is sent in a single request
\* without offset and size.
C24_LookaheadFollowsCurrent ==
    ~append =>
      /\ pc = "upload" => next_chunk.from = chunk.from + chunk.len
      /\ pc = "returned" => \A b \in 0..(L - 1) : TimesSent(b) = 1
      /\ (L <= MAX_CHUNK_SIZE /\ pc = "returned") =>
            /\ Len(requests) <= 1
            /\ \A i \in Reqs : requests[i].args.offset = NONE
                               /\ requests[i].args.size = NONE

----------------------------------------------------------------------------
\* session_pool.Pool: PoolThreads threads, each calling free_session() and
\* then release_session() on the session it got, again and again.

Sessions == 1..max_sessions
Users == 1..PoolThreads

\* Pool(max_sessions): the semaphore holds max_sessions permits, the set
\* that many sessions
InitPool ==
    /\ SaveIdle /\ ExecIdle /\ FileIdle
    /\ free_sessions_counter = max_sessions
    /\ lock = 0
    /\ pool = Sessions
    /\ where = [t \in Users |-> "idle"]
    /\ held = [t \in Users |-> 0]

\* free_session: "self.__free_sessions_counter.acquire()", which blocks
\* while no permit is left
FreeAcquire(t) ==
    /\ where[t] = "idle"
    /\ free_sessions_counter > 0
    /\ free_sessions_counter' = free_sessions_counter - 1
    /\ where' = [where EXCEPT ![t] = "free_lock"]
    /\ UNCHANGED <<saveVars, execVars, fileVars, lock, pool, held>>

\* "self.lock.acquire()"
FreeLock(t) ==
    /\ where[t] = "free_lock"
    /\ lock = 0
    /\ lock' = t
    /\ where' = [where EXCEPT ![t] = "pop"]
    /\ UNCHANGED <<saveVars, execVars, fileVars, free_sessions_counter, pool,
                   held>>

\* "session = self.__pool.pop()" takes any session of the set and raises
\* KeyError when the set is empty; "finally: self.lock.release()"
FreePop(t) ==
    /\ where[t] = "pop"
    /\ IF pool = {}
       THEN /\ where' = [where EXCEPT ![t] = "KeyError"]
            /\ UNCHANGED <<pool, held>>
       ELSE \E s \in pool :
              /\ pool' = pool \ {s}
              /\ held' = [held EXCEPT ![t] = s]
              /\ where' = [where EXCEPT ![t] = "holding"]
    /\ lock' = 0
    /\ UNCHANGED <<saveVars, execVars, fileVars, free_sessions_counter>>

\* release_session: "self.__free_sessions_counter.release()"; a bounded
\* semaphore raises ValueError when all its permits are back, and the except
\* clause ends the call with the session not put back
ReleasePermit(t) ==
    /\ where[t] = "holding"
    /\ IF free_sessions_counter = max_sessions
       THEN /\ where' = [where EXCEPT ![t] = "idle"]
            /\ held' = [held EXCEPT ![t] = 0]
            /\ UNCHANGED free_sessions_counter
       ELSE /\ free_sessions_counter' = free_sessions_counter + 1
            /\ where' = [where EXCEPT ![t] = "release_lock"]
            /\ UNCHANGED held
    /\ UNCHANGED <<saveVars, execVars, fileVars, lock, pool>>

\* "self.lock.acquire()"
ReleaseLock(t) ==
    /\ where[t] = "release_lock"
    /\ lock = 0
    /\ lock' = t
    /\ where' = [where EXCEPT ![t] = "add"]
    /\ UNCHANGED <<saveVars, execVars, fileVars, free_sessions_counter, pool,
                   held>>

\* "self.__pool.add(session)" and "self.lock.release()"
ReleaseAdd(t) ==
    /\ where[t] = "add"
    /\ pool' = pool \cup {held[t]}
    /\ held' = [held EXCEPT ![t] = 0]
    /\ lock' = 0
    /\ where' = [where EXCEPT ![t] = "idle"]
    /\ UNCHANGED <<saveVars, execVars, fileVars, free_sessions_counter>>

NextPool ==
    \E t \in Users :
       \/ FreeAcquire(t)
       \/ FreeLock(t)
       \/ FreePop(t)
       \/ ReleasePermit(t)
       \/ ReleaseLock(t)
       \/ ReleaseAdd(t)

PoolSpec == InitPool /\ [][NextPool]_vars

\* C37: every free_session() that passed the semaphore finds a session in
\* the set when it pops, so none ends in KeyError, and no session is held by
\* two threads at once.
C37_PopFindsSession ==
    /\ \A t \in DOMAIN where :
          /\ where[t] = "pop" => pool # {}
          /\ where[t] # "KeyError"
    /\ \A t, u \in DOMAIN held :
          (t # u /\ held[t] # 0) => held[t] # held[u]

----------------------------------------------------------------------------
\* A later save on a ThreadedEllipticsStorage that was used before.  The slot
\* map and the threads belong to the instance (self.__active_threads is set
\* in __init__ only), so the call starts with what the earlier call left: here
\* one worker whose join wait expired in the earlier call, its slot deleted
\* and its request still in flight.

\* longest content of the later save
MaxAgainLen == 7

\* the worker threads started by an earlier save
Earlier == {1}

InitAgain ==
    /\ threaded = TRUE
    /\ append \in BOOLEAN
    /\ stream \in BOOLEAN
    /\ L \in 0..MaxAgainLen
    /\ size \in (0..MaxAgainLen) \cup {NONE}
    /\ ~stream => size = L
    /\ stream => L <= MaxStreamLen /\ size <= MaxStreamLen
    /\ cursor = 0
    /\ pc = "save"
    /\ length = NONE
    /\ uploaded = 0
    /\ chunk = NoChunk
    /\ next_chunk = NoChunk
    /\ request_args = NoArgs
    /\ synchronous = FALSE
    /\ requests = <<>>
    /\ threads = [t \in Earlier |-> [state |-> "running", outcome |-> "None"]]
    /\ active = <<>>
    /\ workers = {}
    /\ thread = 0
    /\ result = "None"
    /\ caller = ""
    /\ drainCaller = ""
    /\ exception = NoExc
    /\ pending = NoExc
    /\ drainFails = <<>>
    /\ expired = Earlier
    /\ AVERAGE_FILE_SIZE = MaxAverage
    /\ ExecIdle /\ FileIdle /\ SessionsIdle

\* the calling thread in ThreadedEllipticsStorage
MainThreaded ==
    \/ SaveAppend
    \/ SaveGuess
    \/ SaveAppendLoop
    \/ SaveFileLoop
    \/ UploadAChunkThreaded
    \/ SendSynchronous
    \/ DrainBegin
    \/ DrainLoop
    \/ CollectJoin
    \/ CollectRead
    \/ CollectDel
    \/ ReapBegin
    \/ ReapLoop
    \/ ForceOne
    \/ StartThread

NextAgain == MainThreaded \/ Worker

AgainSpec == InitAgain /\ [][NextAgain]_vars

\* C31: when a save on a storage that was used before raises, the exception
\* comes from a request of this save: never from the slot of a worker that an
\* earlier save started.
C31_EarlierSaveNeverFailsLater ==
    (pc = "raised") => pending.src \notin Earlier

----------------------------------------------------------------------------
\* Two saves at a time on one ThreadedEllipticsStorage.  The slot map is a
\* field of the instance, so the snapshots the other save takes in its reap
\* and in its drain hold the slots of this save too.  This save is modelled
\* step by step; of the other save, what it does to the slots of this one:
\* it collects them.  Its own workers are left out.  A save of at most
\* MaxSharedLen bytes has two workers at most, the map never holds
\* MAX_HTTP_SESSIONS slots when _upload_chunk_in_thread tests its size, and
\* the reap loop is not entered.

\* longest content of a save that runs beside another
MaxSharedLen == 7

\* the worker threads this save started
Own == {requests[i].thread : i \in 1..Len(requests)} \ {0}

\* a save of a string with _save_file, on a new instance
InitShared ==
    /\ threaded = TRUE
    /\ append = FALSE
    /\ stream = FALSE
    /\ L \in 0..MaxSharedLen
    /\ size = L
    /\ cursor = 0
    /\ pc = "save"
    /\ length = NONE
    /\ uploaded = 0
    /\ chunk = NoChunk
    /\ next_chunk = NoChunk
    /\ request_args = NoArgs
    /\ synchronous = FALSE
    /\ requests = <<>>
    /\ threads = <<>>
    /\ active = <<>>
    /\ workers = {}
    /\ thread = 0
    /\ result = "None"
    /\ caller = ""
    /\ drainCaller = ""
    /\ exception = NoExc
    /\ pending = NoExc
    /\ drainFails = <<>>
    /\ expired = {}
    /\ AVERAGE_FILE_SIZE = MaxAverage
    /\ ExecIdle /\ FileIdle /\ SessionsIdle

\* __collect_thread_status_and_kill meets a key the other save has deleted:
\* "result = self.__active_threads[thread]" or "del ..." raises KeyError.
\* The drain logs it ("except Exception") and goes on; out of
\* _upload_chunk_in_thread it ends _save_file.
CollectMissing ==
    /\ pc \in {"read", "del"}
    /\ thread \notin Slots
    /\ IF caller = "drain"
       THEN pc' = "drain_loop" /\ UNCHANGED <<drainCaller, pending>>
       ELSE LeaveSaveFile(Exc("KeyError", "", thread))
    /\ UNCHANGED <<inputVars, cursor, loopVars, requests, threads, active,
                   workers, thread, result, caller, exception, drainFails,
                   expired>>

\* the other save's __collect_thread_status_and_kill(t), for a key t of its
\* snapshot: the join has returned, the slot is read and deleted
OtherCollects(t) ==
    /\ ~Terminal
    /\ t \in Slots
    /\ active' = DelSlot(t)
    /\ UNCHANGED <<inputVars, cursor, pc, loopVars, requests, threads,
                   workers, thread, result, caller, drainCaller, exception,
                   pending, drainFails, expired>>

OtherSave == \E t \in 1..Len(threads) : OtherCollects(t)

NextShared ==
    \/ SaveGuess
    \/ SaveFileLoop
    \/ UploadAChunkThreaded
    \/ SendSynchronous
    \/ DrainBegin
    \/ DrainLoop
    \/ CollectJoin
    \/ CollectRead
    \/ CollectDel
    \/ CollectMissing
    \/ ReapBegin
    \/ ForceOne
    \/ StartThread
    \/ Worker
    \/ OtherSave

SharedSpec == InitShared /\ [][NextShared]_vars

\* C33: with another save running on the same storage, a save that returns
\* its key had every chunk whose worker has ended answered with 200.
C33_OwnChunksAll200 ==
    (pc = "returned") =>
        \A t \in Own :
            threads[t].state # "running" => threads[t].outcome = "200"

====
